---- MODULE Spec2Model ----
(***************************************************************************)
(* Model of vispy.scene.events.SceneEvent: the traversal stacks kept by an  *)
(* event while it walks a scenegraph, and the resolution of node-to-node    *)
(* transform chains (node_transform / _node_path).                          *)
(*                                                                          *)
(* The methods are operators on a record of the event's fields (self); an   *)
(* operator yields the fields after the call together with ret, the value   *)
(* returned, and exc, the name of the exception raised (None: the call      *)
(* returned).  A method call is one step: it sets op to the method's name   *)
(* and ret/exc to the outcome.  The step Resume is the caller moving on: it *)
(* forgets the outcome and makes the event ready for the next call.         *)
(* Where the number of loop iterations matters, node_transform is also      *)
(* executed one iteration per step, its locals being held in run.           *)
(***************************************************************************)
EXTENDS Integers, Sequences, FiniteSets, TLC

VARIABLES
    stack,          \* self._stack: list of nodes, root first
    stack_ids,      \* self._stack_ids: set of id(node)
    doc_stack,      \* self._doc_stack
    viewbox_stack,  \* self._viewbox_stack
    op,             \* the method that has just been called (Idle: none)
    arg,            \* its arguments
    ret,            \* the value it returned (None when it raised)
    exc,            \* the exception it raised (None when it returned)
    frames,         \* history: per push_node call not yet matched by a
                    \* pop_node, the node pushed and the path before the call
    probe,          \* call-count probe on _node_path: the probed
                    \* node_transform calls made since the stacks last
                    \* changed, each with the number of _node_path runs
    run             \* the node_transform call that is being executed one
                    \* loop iteration at a time: its position and locals

vars ==
    <<stack, stack_ids, doc_stack, viewbox_stack, op, arg, ret, exc, frames,
      probe, run>>

None == "None"
Idle == "idle"

\* ---------------------------------------------------------------- bounds
MaxDepth == 4       \* longest node stack explored
MaxViews == 2       \* longest viewbox stack explored

\* ------------------------------------------------- the scenegraph (input)
\* The canvas owns three frame nodes; the root scene R hangs below canvas_cs.
\* B and C are viewboxes in R that share the sub-scene D (two parents); E is
\* a visual in D.
Nodes == {"render_cs", "buffer_cs", "canvas_cs", "R", "B", "C", "D", "E"}

\* the nodes a traversal visits (the arguments of push_node)
SceneNodes == {"R", "B", "C", "D", "E"}

\* node.parents
parents ==
    [n \in Nodes |->
        CASE n = "render_cs" -> <<>>
          [] n = "buffer_cs" -> <<"render_cs">>
          [] n = "canvas_cs" -> <<"buffer_cs">>
          [] n = "R"         -> <<"canvas_cs">>
          [] n = "B"         -> <<"R">>
          [] n = "C"         -> <<"R">>
          [] n = "D"         -> <<"B", "C">>
          [] OTHER           -> <<"D">>]

\* node.parent, read by the code only when len(node.parents) == 1
parent(n) == parents[n][1]

\* node.document (None when the node declares no document)
document ==
    [n \in Nodes |->
        CASE n = "R" -> "R"
          [] n = "D" -> "D"
          [] OTHER   -> None]

\* the nodes that are viewboxes, and viewbox.scene
ViewBoxes == {"B", "C"}
scene == [v \in ViewBoxes |-> "D"]

\* canvas.canvas_cs, canvas.buffer_cs, canvas.render_cs
canvas_cs == "canvas_cs"
buffer_cs == "buffer_cs"
render_cs == "render_cs"

\* ------------------------------------------------------- python helpers
Last(s) == s[Len(s)]
Front(s) == SubSeq(s, 1, Len(s) - 1)
Reverse(s) == [i \in 1..Len(s) |-> s[Len(s) + 1 - i]]
Elems(s) == {s[i] : i \in 1..Len(s)}

\* list[ind] for a python index ind >= -1 on a non-empty list
PyGet(s, ind) == IF ind < 0 THEN s[Len(s) + ind + 1] ELSE s[ind + 1]

\* list.index(x): python index of the first occurrence of x
PyIndex(s, x) == (CHOOSE i \in 1..Len(s) : s[i] = x /\ \A j \in 1..(i - 1) : s[j] # x) - 1

\* the outcome of a call that leaves the fields of self alone
Raise(e) == [ret |-> None, exc |-> e]
Return(v) == [ret |-> v, exc |-> None]

\* the fields of the event
Self ==
    [stack |-> stack, stack_ids |-> stack_ids,
     doc_stack |-> doc_stack, viewbox_stack |-> viewbox_stack]

\* SceneEvent.__init__
NewEvent ==
    [stack |-> <<>>, stack_ids |-> {}, doc_stack |-> <<>>, viewbox_stack |-> <<>>]

\* no call is being executed step by step
NoRun ==
    [pc |-> "none", phase |-> "none", to |-> None, end |-> None, node |-> None,
     path |-> <<>>, fwd_path |-> <<>>, ind |-> 0, i |-> 0, n |-> 0,
     connected |-> FALSE, walked |-> 0, copied |-> 0, chain |-> <<>>]

Init ==
    /\ stack = NewEvent.stack
    /\ stack_ids = NewEvent.stack_ids
    /\ doc_stack = NewEvent.doc_stack
    /\ viewbox_stack = NewEvent.viewbox_stack
    /\ op = Idle
    /\ arg = <<>>
    /\ ret = None
    /\ exc = None
    /\ frames = <<>>
    /\ probe = <<>>
    /\ run = NoRun

\* self with outcome [ret, exc] of the call
Outcome(self, r) ==
    [stack |-> self.stack, stack_ids |-> self.stack_ids,
     doc_stack |-> self.doc_stack, viewbox_stack |-> self.viewbox_stack,
     ret |-> r.ret, exc |-> r.exc]

\* --------------------------------------------- push_document/pop_document
push_document(self, doc) ==
    Outcome([self EXCEPT !.doc_stack = Append(self.doc_stack, doc)], Return(None))

pop_document(self) ==
    IF self.doc_stack = <<>>
    THEN Outcome(self, Raise("IndexError"))
    ELSE Outcome([self EXCEPT !.doc_stack = Front(self.doc_stack)],
                 Return(Last(self.doc_stack)))

\* ------------------------------------------------------------ push_node
push_node(self, node) ==
    LET appended == [self EXCEPT !.stack = Append(self.stack, node)] IN
    IF node \in self.stack_ids
    THEN Outcome(appended, Raise("RuntimeError"))
    ELSE LET added == [appended EXCEPT !.stack_ids = self.stack_ids \cup {node}] IN
         IF document[node] # None
         THEN push_document(added, document[node])
         ELSE Outcome(added, Return(None))

\* ------------------------------------------------------------- pop_node
pop_node(self) ==
    IF self.stack = <<>>
    THEN Outcome(self, Raise("IndexError"))
    ELSE
    LET ent    == Last(self.stack)
        popped == [self EXCEPT !.stack = Front(self.stack)]
    IN  IF ent \notin self.stack_ids
        THEN Outcome(popped, Raise("KeyError"))
        ELSE
        LET removed == [popped EXCEPT !.stack_ids = self.stack_ids \ {ent}] IN
        IF document[ent] = None
        THEN Outcome(removed, Return(ent))
        ELSE LET d == pop_document(removed) IN
             IF d.exc # None THEN d
             ELSE IF document[ent] = d.ret
             THEN Outcome(d, Return(ent))
             ELSE Outcome(d, Raise("AssertionError"))

\* ------------------------------------------- push_viewbox / pop_viewbox
push_viewbox(self, viewbox) ==
    Outcome([self EXCEPT !.viewbox_stack = Append(self.viewbox_stack, viewbox)],
            Return(None))

\* pop_viewbox answering None on an empty stack
pop_viewbox_Sentinel(self) ==
    IF self.viewbox_stack = <<>>
    THEN Outcome(self, Return(None))
    ELSE Outcome([self EXCEPT !.viewbox_stack = Front(self.viewbox_stack)],
                 Return(Last(self.viewbox_stack)))

pop_viewbox(self) ==
    IF self.viewbox_stack = <<>>
    THEN Outcome(self, Raise("IndexError"))
    ELSE Outcome([self EXCEPT !.viewbox_stack = Front(self.viewbox_stack)],
                 Return(Last(self.viewbox_stack)))
\* ------------------------------------------------------------ _node_path
\* First loop of _node_path: follow node.parent from the start node until a
\* node of the stack is met.  done is TRUE when the loop was left through
\* its return (the node is end, or does not have exactly one parent).
\* the parent loop without the test "node is end"
RECURSIVE WalkParents_IgnoresEnd(_, _, _, _)
WalkParents_IgnoresEnd(self, node, end, path) ==
    IF node \in self.stack_ids
    THEN [path |-> path, node |-> node, done |-> FALSE]
    ELSE IF Len(parents[node]) # 1
    THEN [path |-> path, node |-> node, done |-> TRUE]
    ELSE WalkParents_IgnoresEnd(self, parent(node), end, Append(path, parent(node)))

\* the parent loop stopping only at a node without parents
RECURSIVE WalkParents_FollowsFirstParent(_, _, _, _)
WalkParents_FollowsFirstParent(self, node, end, path) ==
    IF node \in self.stack_ids
    THEN [path |-> path, node |-> node, done |-> FALSE]
    ELSE IF node = end \/ Len(parents[node]) = 0
    THEN [path |-> path, node |-> node, done |-> TRUE]
    ELSE WalkParents_FollowsFirstParent(self, parent(node), end,
                                        Append(path, parent(node)))

RECURSIVE WalkParents(_, _, _, _)
WalkParents(self, node, end, path) ==
    IF node \in self.stack_ids
    THEN [path |-> path, node |-> node, done |-> FALSE]
    ELSE IF node = end \/ Len(parents[node]) # 1
    THEN [path |-> path, node |-> node, done |-> TRUE]
    ELSE WalkParents(self, parent(node), end, Append(path, parent(node)))

\* Second loop of _node_path: copy the stack onto the path one node at a
\* time, ind being the python index copied last.
RECURSIVE CopyStack(_, _, _, _)
CopyStack(self, path, end, ind) ==
    IF ind > -1 /\ Last(path) # end
    THEN CopyStack(self, Append(path, PyGet(self.stack, ind - 1)), end, ind - 1)
    ELSE path

\* _node_path(start, end): [ret |-> path, exc]
NodePath(self, start, end) ==
    LET w == WalkParents(self, start, end, <<start>>) IN
    IF w.done \/ Last(w.path) = end
    THEN Return(w.path)
    ELSE IF w.node \notin Elems(self.stack)
    THEN \* self._stack.index(node) of a node that is not in the list
         Raise("ValueError")
    ELSE Return(CopyStack(self, w.path, end, PyIndex(self.stack, w.node)))

\* -------------------------------------------------------- node_transform
\* The loop over range(1, len(rev_path)): i is the python index, n the
\* length rev_path had when the range was built.
\* the join search with connected starting as True
JoinLoop_AlwaysConnected(rev_path, fwd_path, i, n, connected) ==
    [rev_path |-> rev_path, connected |-> TRUE, exc |-> None]

RECURSIVE JoinLoop(_, _, _, _, _)
JoinLoop(rev_path, fwd_path, i, n, connected) ==
    IF i >= n
    THEN [rev_path |-> rev_path, connected |-> connected, exc |-> None]
    ELSE IF i >= Len(rev_path)
    THEN \* rev_path[i] past the end of the truncated list
         [rev_path |-> rev_path, connected |-> connected, exc |-> "IndexError"]
    ELSE IF rev_path[i + 1] \in Elems(fwd_path)
    THEN JoinLoop(SubSeq(rev_path, 1, i), fwd_path, i + 1, n, TRUE)
    ELSE JoinLoop(rev_path, fwd_path, i + 1, n, connected)

\* [e.transform for e in fwd_path] + [e.transform.inverse for e in rev_path]
Transforms(fwd_path, rev_path) ==
    [i \in 1..Len(fwd_path) |-> <<fwd_path[i], "transform">>]
    \o [i \in 1..Len(rev_path) |-> <<rev_path[i], "inverse">>]

\* self._transform_cache.get(transforms): the composed transform is
\* represented by the chain it is composed from
CacheGet(transforms) == Return(transforms)

\* node_transform(map_to, map_from): [ret, exc]
NodeTransform(self, map_to, map_from) ==
    LET to == IF map_to = None THEN render_cs ELSE map_to IN
    IF map_from = None /\ self.stack = <<>>
    THEN Raise("IndexError")
    ELSE
    LET from == IF map_from = None THEN Last(self.stack) ELSE map_from
        fp   == NodePath(self, from, to)
        fwd_path == Reverse(fp.ret)
    IN  IF fp.exc # None THEN Raise(fp.exc)
        ELSE IF fwd_path[1] = to
        THEN CacheGet(Transforms(Tail(fwd_path), <<>>))
        ELSE IF self.stack = <<>>
        THEN Raise("IndexError")
        ELSE LET rp == NodePath(self, to, self.stack[1]) IN
             IF rp.exc # None THEN Raise(rp.exc)
             ELSE LET j == JoinLoop(rp.ret, fwd_path, 1, Len(rp.ret), FALSE) IN
                  IF j.exc # None THEN Raise(j.exc)
                  ELSE IF ~j.connected THEN Raise("RuntimeError")
                  ELSE CacheGet(Transforms(fwd_path, j.rev_path))

\* the number of times node_transform(map_to, map_from) runs _node_path:
\* once for the forward path, once more for the reverse path
NodePathRuns(self, map_to, map_from) ==
    LET to == IF map_to = None THEN render_cs ELSE map_to IN
    IF map_from = None /\ self.stack = <<>>
    THEN 0
    ELSE
    LET from == IF map_from = None THEN Last(self.stack) ELSE map_from
        fp   == NodePath(self, from, to)
    IN  IF fp.exc # None \/ Reverse(fp.ret)[1] = to \/ self.stack = <<>>
        THEN 1
        ELSE 2

\* ----------------------------------------------------- frame accessors
document_cs(self) ==
    IF Len(self.doc_stack) > 0 THEN Last(self.doc_stack) ELSE canvas_cs

\* visual_to_document: the argument map_from=node names no variable of the
\* method, the class or the module, so evaluating it raises NameError
visual_to_document(self) == Raise("NameError")

document_to_buffer(self) == NodeTransform(self, buffer_cs, document_cs(self))

buffer_to_render(self) == NodeTransform(self, render_cs, buffer_cs)

\* ------------------------------------- scene_transform / view_transform
\* scene_transform testing for one viewbox instead of two
scene_transform_OneViewbox(self) ==
    IF Len(self.viewbox_stack) > 0
    THEN NodeTransform(self, scene[Last(self.viewbox_stack)], None)
    ELSE Return(None)

scene_transform(self) ==
    IF Len(self.viewbox_stack) > 1
    THEN NodeTransform(self, scene[Last(self.viewbox_stack)], None)
    ELSE Return(None)

view_transform(self) ==
    IF Len(self.viewbox_stack) > 1
    THEN NodeTransform(self, Last(self.viewbox_stack), None)
    ELSE Return(None)

\* ------------------------------------------------- SceneMouseEvent.copy
\* copy(): a new event of the same class, given copies of _stack and
\* _viewbox_stack; _stack_ids and _doc_stack are as __init__ made them
copy(self) ==
    [NewEvent EXCEPT !.stack = self.stack, !.viewbox_stack = self.viewbox_stack]

\* ================================================================ steps
\* a call of method name with arguments args whose outcome is r
Call(name, args, r) ==
    /\ op = Idle
    /\ op' = name
    /\ arg' = args
    /\ ret' = r.ret
    /\ exc' = r.exc
    /\ UNCHANGED run

\* a call that may change the fields of the event
Mutate(name, args, r) ==
    /\ Call(name, args, r)
    /\ stack' = r.stack
    /\ stack_ids' = r.stack_ids
    /\ doc_stack' = r.doc_stack
    /\ viewbox_stack' = r.viewbox_stack
    /\ probe' = <<>>

\* a query whose list.reverse() acts on the node stack itself
Query_ReversesStack(name, args, r) ==
    /\ Call(name, args, r)
    /\ stack' = Reverse(stack)
    /\ UNCHANGED <<stack_ids, doc_stack, viewbox_stack, frames, probe>>

\* a call of a property or method that only reads the event
Query(name, args, r) ==
    /\ Call(name, args, r)
    /\ UNCHANGED <<stack, stack_ids, doc_stack, viewbox_stack, frames, probe>>

PushNode(node) ==
    /\ Len(stack) < MaxDepth
    /\ Mutate("push_node", <<node>>, push_node(Self, node))
    /\ frames' = Append(frames, [node |-> node, path |-> stack])

PopNode ==
    /\ Mutate("pop_node", <<>>, pop_node(Self))
    /\ frames' = IF frames = <<>> THEN frames ELSE Front(frames)

PushViewbox(viewbox) ==
    /\ Len(viewbox_stack) < MaxViews
    /\ Mutate("push_viewbox", <<viewbox>>, push_viewbox(Self, viewbox))
    /\ UNCHANGED frames

PopViewbox ==
    /\ Mutate("pop_viewbox", <<>>, pop_viewbox(Self))
    /\ UNCHANGED frames

NodeTransformCall(map_to, map_from) ==
    Query("node_transform", <<map_to, map_from>>, NodeTransform(Self, map_to, map_from))

\* a call of node_transform with the call-count probe on _node_path: a
\* first call, or the same call made a second time
NodeTransformProbed(map_to, map_from) ==
    /\ \/ probe = <<>>
       \/ Len(probe) = 1 /\ probe[1].arg = <<map_to, map_from>>
    /\ Call("node_transform", <<map_to, map_from>>,
            NodeTransform(Self, map_to, map_from))
    /\ probe' = Append(probe,
                    [arg |-> <<map_to, map_from>>,
                     ret |-> NodeTransform(Self, map_to, map_from).ret,
                     exc |-> NodeTransform(Self, map_to, map_from).exc,
                     runs |-> NodePathRuns(Self, map_to, map_from)])
    /\ UNCHANGED <<stack, stack_ids, doc_stack, viewbox_stack, frames>>

\* a call of _node_path(start, end)
NodePathCall(start, end) ==
    Query("node_path", <<start, end>>, NodePath(Self, start, end))

VisualToDocument == Query("visual_to_document", <<>>, visual_to_document(Self))
DocumentToBuffer == Query("document_to_buffer", <<>>, document_to_buffer(Self))
BufferToRender == Query("buffer_to_render", <<>>, buffer_to_render(Self))
SceneTransform == Query("scene_transform", <<>>, scene_transform(Self))
ViewTransform == Query("view_transform", <<>>, view_transform(Self))

\* copy() is called and the caller goes on with the event it returns
Copy ==
    /\ Mutate("copy", <<>>, Outcome(copy(Self), Return(None)))
    /\ UNCHANGED frames

\* the caller resumes after the call has returned or raised
Resume ==
    /\ op # Idle
    /\ run.pc = "none"
    /\ op' = Idle
    /\ arg' = <<>>
    /\ ret' = None
    /\ exc' = None
    /\ run' = NoRun
    /\ UNCHANGED <<stack, stack_ids, doc_stack, viewbox_stack, frames, probe>>

\* ------------------------------- node_transform, one loop iteration a step
\* the call goes on with locals r
Continue(r) ==
    /\ run' = r
    /\ UNCHANGED <<stack, stack_ids, doc_stack, viewbox_stack, op, arg, ret, exc,
                   frames, probe>>

\* the call returns or raises with outcome r; the chain returned is kept
\* in run.chain
Finish(r) ==
    /\ run' = [NoRun EXCEPT !.chain = IF r.exc = None THEN r.ret ELSE <<>>]
    /\ exc' = r.exc
    /\ UNCHANGED <<stack, stack_ids, doc_stack, viewbox_stack, op, arg, ret,
                   frames, probe>>

\* node_transform is entered: the defaults of map_to and map_from, then
\* the first statement of _node_path(map_from, map_to)
Begin(map_to, map_from) ==
    /\ op = Idle
    /\ op' = "node_transform"
    /\ arg' = <<map_to, map_from>>
    /\ UNCHANGED <<stack, stack_ids, doc_stack, viewbox_stack, frames, probe>>
    /\ IF map_from = None /\ stack = <<>>
       THEN /\ run' = NoRun
            /\ ret' = None
            /\ exc' = "IndexError"
       ELSE LET to   == IF map_to = None THEN render_cs ELSE map_to
                from == IF map_from = None THEN Last(stack) ELSE map_from
            IN  /\ run' = [NoRun EXCEPT !.pc = "walk", !.phase = "fwd", !.to = to,
                                        !.end = to, !.node = from, !.path = <<from>>]
                /\ ret' = None
                /\ exc' = None

\* _node_path returns path to node_transform: after the forward path,
\* lines 234-242; after the reverse path, the loop of line 244 is entered
PathReturned(path) ==
    IF run.phase = "fwd"
    THEN LET fwd_path == Reverse(path) IN
         IF fwd_path[1] = run.to
         THEN Finish(CacheGet(Transforms(Tail(fwd_path), <<>>)))
         ELSE IF stack = <<>>
         THEN Finish(Raise("IndexError"))
         ELSE Continue([NoRun EXCEPT !.pc = "walk", !.phase = "rev", !.to = run.to,
                                     !.end = stack[1], !.node = run.to,
                                     !.path = <<run.to>>, !.fwd_path = fwd_path])
    ELSE Continue([run EXCEPT !.pc = "join", !.path = path, !.i = 1,
                              !.n = Len(path), !.connected = FALSE])

\* one test of the while loop of lines 268-273, with its body or its exit
WalkStep ==
    /\ run.pc = "walk"
    /\ IF run.node \notin stack_ids
       THEN IF run.node = run.end \/ Len(parents[run.node]) # 1
            THEN PathReturned(run.path)
            ELSE Continue([run EXCEPT !.node = parent(run.node),
                                      !.path = Append(run.path, parent(run.node)),
                                      !.walked = run.walked + 1])
       ELSE IF Last(run.path) = run.end
            THEN PathReturned(run.path)
            ELSE IF run.node \notin Elems(stack)
            THEN Finish(Raise("ValueError"))
            ELSE Continue([run EXCEPT !.pc = "copy",
                                      !.ind = PyIndex(stack, run.node)])

\* the copy loop run without the test ind > -1
CopyStep_NoIndexTest ==
    /\ run.pc = "copy"
    /\ IF Last(run.path) # run.end
       THEN IF run.ind - 1 < 0 - Len(stack)
            THEN PathReturned(run.path)
            ELSE Continue([run EXCEPT !.ind = run.ind - 1,
                                      !.path = Append(run.path, PyGet(stack, run.ind - 1)),
                                      !.copied = run.copied + 1])
       ELSE PathReturned(run.path)

\* one test of the while loop of lines 280-282, with its body or its exit;
\* an index below -len(_stack) raises the IndexError that line 283 catches
CopyStep ==
    /\ run.pc = "copy"
    /\ IF run.ind > -1 /\ Last(run.path) # run.end
       THEN IF run.ind - 1 < 0 - Len(stack)
            THEN PathReturned(run.path)
            ELSE Continue([run EXCEPT !.ind = run.ind - 1,
                                      !.path = Append(run.path, PyGet(stack, run.ind - 1)),
                                      !.copied = run.copied + 1])
       ELSE PathReturned(run.path)

\* one iteration of the for loop of lines 244-247 (run.path is rev_path),
\* or its end and lines 249-255
JoinStep ==
    /\ run.pc = "join"
    /\ IF run.i >= run.n
       THEN IF ~run.connected
            THEN Finish(Raise("RuntimeError"))
            ELSE Finish(CacheGet(Transforms(run.fwd_path, run.path)))
       ELSE IF run.i >= Len(run.path)
       THEN Finish(Raise("IndexError"))
       ELSE IF run.path[run.i + 1] \in Elems(run.fwd_path)
       THEN Continue([run EXCEPT !.path = SubSeq(run.path, 1, run.i),
                                 !.connected = TRUE, !.i = run.i + 1])
       ELSE Continue([run EXCEPT !.i = run.i + 1])

\* The event as a traversal context: the stacks, the frame properties and
\* the viewbox-relative transforms.
Next ==
    \/ \E node \in SceneNodes : PushNode(node)
    \/ PopNode
    \/ \E viewbox \in ViewBoxes : PushViewbox(viewbox)
    \/ PopViewbox
    \/ VisualToDocument
    \/ DocumentToBuffer
    \/ BufferToRender
    \/ SceneTransform
    \/ ViewTransform
    \/ Resume

Spec == Init /\ [][Next]_vars

\* The event as a transform resolver: node_transform between any two nodes
\* (or the defaults), on every node stack push_node and pop_node can build.
NextTransform ==
    \/ \E node \in SceneNodes : PushNode(node)
    \/ PopNode
    \/ \E map_to, map_from \in Nodes \cup {None} : NodeTransformCall(map_to, map_from)
    \/ Resume

SpecTransform == Init /\ [][NextTransform]_vars

\* The path search on its own: _node_path between any two nodes, and
\* node_transform, which calls it, on every node stack.
NextPath ==
    \/ \E node \in SceneNodes : PushNode(node)
    \/ PopNode
    \/ \E start, end \in Nodes : NodePathCall(start, end)
    \/ \E map_to, map_from \in Nodes \cup {None} : NodeTransformCall(map_to, map_from)
    \/ Resume

SpecPath == Init /\ [][NextPath]_vars

\* A mouse event that is copied during the traversal, the traversal going
\* on with the copy.
NextCopy ==
    \/ \E node \in SceneNodes : PushNode(node)
    \/ PopNode
    \/ \E viewbox \in ViewBoxes : PushViewbox(viewbox)
    \/ PopViewbox
    \/ Copy
    \/ Resume

SpecCopy == Init /\ [][NextCopy]_vars

\* node_transform executed one loop iteration at a time, on every node
\* stack, between the endpoints of StepTargets and StepSources.
StepTargets == {None, "C"}
StepSources == {None, "B", "E"}

NextSteps ==
    \/ \E node \in SceneNodes : PushNode(node)
    \/ PopNode
    \/ \E map_to \in StepTargets, map_from \in StepSources : Begin(map_to, map_from)
    \/ WalkStep
    \/ CopyStep
    \/ JoinStep
    \/ Resume

SpecSteps == Init /\ [][NextSteps]_vars

\* a call that has been entered runs on: the core is synchronous and has
\* no suspension point
SpecStepsFair == SpecSteps /\ WF_run(WalkStep \/ CopyStep \/ JoinStep)

\* Repeated node_transform calls under the call-count probe, between the
\* endpoints of ProbedNodes.
ProbedNodes == {None, "canvas_cs", "R", "C", "E"}

NextProbe ==
    \/ \E node \in SceneNodes : PushNode(node)
    \/ PopNode
    \/ \E map_to, map_from \in ProbedNodes : NodeTransformProbed(map_to, map_from)
    \/ Resume

SpecProbe == Init /\ [][NextProbe]_vars

\* ======================================================================
\* Properties of the traversal stacks
\* ======================================================================
NoDuplicates(s) == \A i, j \in 1..Len(s) : i # j => s[i] # s[j]

\* C1: push_node of a node that is already on the node stack raises the
\* cycle error and leaves node_stack, the membership set and document_stack
\* exactly as they were before the call.
C1_FailedPushLeavesEventUnmodified ==
    [][(op' = "push_node" /\ arg'[1] \in Elems(stack))
        => /\ exc' = "RuntimeError"
           /\ stack' = stack
           /\ stack_ids' = stack_ids
           /\ doc_stack' = doc_stack]_vars

\* C2: in every reachable state node_stack holds no node twice and the
\* membership set is exactly the set of nodes on node_stack, so the two have
\* the same size.
C2_MembershipMirrorsStack ==
    /\ NoDuplicates(stack)
    /\ stack_ids = Elems(stack)
    /\ Len(stack) = Cardinality(stack_ids)

\* C3: in a properly nested sequence of push_node/pop_node calls every
\* pop_node returns the node pushed by its matching push_node and restores
\* path() to the value it had just before that push.
C3_PopRestoresPath ==
    [][(op' = "pop_node" /\ frames # <<>>)
        => /\ exc' = None
           /\ ret' = Last(frames).node
           /\ stack' = Last(frames).path]_vars

\* C4: from any state of the event, push_node of a node with a document
\* followed immediately by pop_node leaves document_stack as it was before
\* the push (length and contents), and the assertion of pop_node does not
\* fail.
C4_PushPopKeepsDocuments ==
    \A node \in Nodes :
        document[node] # None =>
            LET popped == pop_node(push_node(Self, node)) IN
            /\ popped.exc # "AssertionError"
            /\ popped.doc_stack = doc_stack
\* ======================================================================
\* Properties of node_transform
\* ======================================================================
\* the entry of node e in a transform chain
Forward(e) == <<e, "transform">>
Inverse(e) == <<e, "inverse">>

\* C5: with the node stack [R, B, D] of the diamond (D below both B and C,
\* B and C below R), node_transform(map_from=D, map_to=R) resolves along the
\* stack: it returns a chain that holds the forward transforms of B and D,
\* no transform of C and no inverse entry.
C5_DiamondFollowsStack ==
    (op = "node_transform" /\ arg = <<"R", "D">> /\ stack = <<"R", "B", "D">>)
        => /\ exc = None
           /\ Forward("B") \in Elems(ret)
           /\ Forward("D") \in Elems(ret)
           /\ \A i \in 1..Len(ret) : ret[i][1] # "C" /\ ret[i][2] = "transform"
\* every node from n up to, not including, root has exactly one parent
RECURSIVE HasSingleChain(_, _)
HasSingleChain(n, root) ==
    n = root \/ (Len(parents[n]) = 1 /\ HasSingleChain(parent(n), root))

\* the nodes from n up to, not including, root, the one next to root first
RECURSIVE ChainBelow(_, _)
ChainBelow(n, root) ==
    IF n = root THEN <<>> ELSE Append(ChainBelow(parent(n), root), n)

\* C6: for a node N whose ancestors up to a root target have exactly one
\* parent each, node_transform(map_from=N, map_to=root) returns the chain of
\* the forward transforms of N and of its ancestors below the root target,
\* one entry per node, root side first, whatever the node stack holds.
C6_SingleChainComposes ==
    (/\ op = "node_transform"
     /\ arg[1] # None /\ arg[2] # None
     /\ HasSingleChain(arg[2], arg[1]))
        => /\ exc = None
           /\ ret = [i \in 1..Len(ChainBelow(arg[2], arg[1])) |->
                        Forward(ChainBelow(arg[2], arg[1])[i])]

\* C7: node_transform(map_from=A, map_to=A) returns the empty chain and
\* does not raise, for every node A, on the node stack or not.
C7_SelfTransformIsEmpty ==
    (op = "node_transform" /\ arg[1] # None /\ arg[1] = arg[2])
        => (exc = None /\ ret = <<>>)

\* D, on a stack of three nodes, has been mapped to itself
C7_Witness ==
    /\ op = "node_transform"
    /\ arg = <<"D", "D">>
    /\ stack = <<"R", "B", "D">>
    /\ stack_ids = {"R", "B", "D"}
    /\ exc = None
    /\ ret = <<>>

\* the endpoints of the node_transform call recorded in arg
MapTo == IF arg[1] = None THEN render_cs ELSE arg[1]
MapFrom == IF arg[2] = None THEN Last(stack) ELSE arg[2]

\* the walk from map_from towards map_to, and from map_to towards the
\* bottom of the stack
ForwardWalk == NodePath(Self, MapFrom, MapTo)
ReverseWalk == NodePath(Self, MapTo, stack[1])

\* the forward walk does not end at map_to and no element of the reverse
\* walk at python index >= 1 is on the forward path
NoJoin ==
    /\ ForwardWalk.exc = None
    /\ Last(ForwardWalk.ret) # MapTo
    /\ ReverseWalk.exc = None
    /\ \A i \in 2..Len(ReverseWalk.ret) :
            ReverseWalk.ret[i] \notin Elems(ForwardWalk.ret)

\* C8: with a non-empty node stack, when the forward walk does not end at
\* map_to and the reverse walk has no join with it, node_transform raises
\* "Unable to find unique path" (RuntimeError), returns nothing and fails
\* in no other way.
C8_DisjointPathsRaise ==
    (op = "node_transform" /\ stack # <<>> /\ NoJoin)
        => (exc = "RuntimeError" /\ ret = None)

\* the join search ran over a reverse walk of several nodes and found none
C8_Witness ==
    /\ op = "node_transform"
    /\ stack # <<>>
    /\ NoJoin
    /\ Len(ReverseWalk.ret) > 2
    /\ exc = "RuntimeError"

\* ======================================================================
\* Properties of the derived transforms
\* ======================================================================
\* C9: reading visual_to_document returns what node_transform returns from
\* the node being visited to document_cs, and succeeds whenever that query
\* succeeds.
C9_VisualToDocumentResolves ==
    (op = "visual_to_document" /\ stack # <<>>)
        => LET r == NodeTransform(Self, document_cs(Self), Last(stack)) IN
           r.exc = None => (exc = None /\ ret = r.ret)

\* C10: scene_transform and view_transform return None and do not raise
\* while viewbox_stack holds fewer than two entries, whatever the node
\* stack; with two or more they return what node_transform yields from the
\* current node to the scene of the innermost viewbox, respectively to the
\* innermost viewbox.
C10_ViewTransforms ==
    /\ (op \in {"scene_transform", "view_transform"} /\ Len(viewbox_stack) < 2)
        => (ret = None /\ exc = None)
    /\ (op = "scene_transform" /\ Len(viewbox_stack) >= 2 /\ stack # <<>>)
        => [ret |-> ret, exc |-> exc]
            = NodeTransform(Self, scene[Last(viewbox_stack)], Last(stack))
    /\ (op = "view_transform" /\ Len(viewbox_stack) >= 2 /\ stack # <<>>)
        => [ret |-> ret, exc |-> exc]
            = NodeTransform(Self, Last(viewbox_stack), Last(stack))

\* scene_transform has been read with one viewbox pushed and no node
C10_Witness ==
    /\ op = "scene_transform"
    /\ Len(viewbox_stack) = 1
    /\ stack = <<>>
    /\ ret = None
    /\ exc = None

\* ======================================================================
\* Properties settled on the same model: empty pops, the join search, the
\* stack copy, the documents, the parent walk
\* ======================================================================
\* C11: pop_node on an empty node stack and pop_viewbox on an empty viewbox
\* stack raise an error (IndexError) instead of returning a value, and leave
\* node_stack, the membership set, document_stack and viewbox_stack as they
\* were.
C11_EmptyPopsFail ==
    [][/\ (op' = "pop_node" /\ stack = <<>>)
            => /\ exc' = "IndexError" /\ ret' = None
               /\ UNCHANGED <<stack, stack_ids, doc_stack, viewbox_stack>>
       /\ (op' = "pop_viewbox" /\ viewbox_stack = <<>>)
            => /\ exc' = "IndexError" /\ ret' = None
               /\ UNCHANGED <<stack, stack_ids, doc_stack, viewbox_stack>>]_vars

\* pop_viewbox has been called with no viewbox but a node pushed
C11_Witness ==
    /\ op = "pop_viewbox"
    /\ exc = "IndexError"
    /\ viewbox_stack = <<>>
    /\ stack # <<>>

\* the forward walk does not end at map_to and some element of the reverse
\* walk at python index >= 1 is on the forward path
HasJoin ==
    /\ ForwardWalk.exc = None
    /\ Last(ForwardWalk.ret) # MapTo
    /\ ReverseWalk.exc = None
    /\ \E i \in 2..Len(ReverseWalk.ret) :
            ReverseWalk.ret[i] \in Elems(ForwardWalk.ret)

\* the python index of the first such element
FirstJoin ==
    (CHOOSE i \in 2..Len(ReverseWalk.ret) :
        /\ ReverseWalk.ret[i] \in Elems(ForwardWalk.ret)
        /\ \A k \in 2..(i - 1) : ReverseWalk.ret[k] \notin Elems(ForwardWalk.ret)) - 1

\* C12: when the forward walk does not reach map_to, the reverse path is cut
\* at the first index i >= 1 whose node is on the forward path and the call
\* returns the forward transforms followed by the inverse transforms of
\* rev_path[0..i), wherever the join lies in the reverse path.
C12_CutAtFirstJoin ==
    (op = "node_transform" /\ stack # <<>> /\ HasJoin)
        => /\ exc = None
           /\ ret = Transforms(Reverse(ForwardWalk.ret),
                               SubSeq(ReverseWalk.ret, 1, FirstJoin))

\* the parent walk of the _node_path call recorded in arg
PathWalk == WalkParents(Self, arg[1], arg[2], <<arg[1]>>)

\* the walk has reached a node of the stack, and end is neither that node
\* nor on the stack below it
CopyMissesEnd ==
    /\ ~PathWalk.done
    /\ Last(PathWalk.path) # arg[2]
    /\ arg[2] \notin Elems(SubSeq(stack, 1, PyIndex(stack, PathWalk.node)))

\* C13: in _node_path, once the walk has reached a node of the stack and
\* end is not on the stack below it, the copy runs towards the root and
\* stops when the stack is exhausted: the path returned ends at
\* node_stack[0] and holds no node twice.
C13_CopyStopsAtRoot ==
    (op = "node_path" /\ exc = None /\ CopyMissesEnd)
        => /\ Last(ret) = stack[1]
           /\ NoDuplicates(ret)

\* the documents that the nodes of a path declare, in path order
RECURSIVE DeclaredDocuments(_)
DeclaredDocuments(path) ==
    IF path = <<>> THEN <<>>
    ELSE IF document[Last(path)] = None
         THEN DeclaredDocuments(Front(path))
         ELSE Append(DeclaredDocuments(Front(path)), document[Last(path)])

\* C14: after push_node/pop_node calls alone, document_stack is the
\* sequence of the documents declared by the nodes of node_stack, in stack
\* order; the assertion of pop_node never fails; and document_cs is the
\* document of the deepest node of the path that declares one, or
\* canvas_cs when none does.
C14_DocumentsFollowStack ==
    /\ doc_stack = DeclaredDocuments(stack)
    /\ ~(op = "pop_node" /\ exc = "AssertionError")
    /\ document_cs(Self) = IF DeclaredDocuments(stack) = <<>> THEN canvas_cs
                           ELSE Last(DeclaredDocuments(stack))

\* the chain of only parents above a node, up to the first node that does
\* not have exactly one parent
RECURSIVE ParentChain(_)
ParentChain(node) ==
    IF Len(parents[node]) # 1 THEN <<node>>
    ELSE <<node>> \o ParentChain(parent(node))

\* position in the chain above start of the first node that is end or
\* does not have exactly one parent
FirstStop(start, end) ==
    CHOOSE i \in 1..Len(ParentChain(start)) :
        /\ ParentChain(start)[i] = end \/ Len(parents[ParentChain(start)[i]]) # 1
        /\ \A j \in 1..(i - 1) :
              /\ ParentChain(start)[j] # end
              /\ Len(parents[ParentChain(start)[j]]) = 1

\* the path from start to the first node that is end or does not have
\* exactly one parent
PathToFirstStop(start, end) == SubSeq(ParentChain(start), 1, FirstStop(start, end))

\* the walk from start comes to that node: no node before it is in the
\* membership set
WalkMeetsFirstStop(start, end) ==
    \A j \in 1..(FirstStop(start, end) - 1) : ParentChain(start)[j] \notin stack_ids

\* C15 as stated: for a start node off the stack, when the walk comes to
\* the first node that is end or does not have exactly one parent,
\* _node_path returns the path so far, which ends at that node.
C15_WalkStopsAtFirstStop ==
    (op = "node_path" /\ arg[1] \notin stack_ids
        /\ WalkMeetsFirstStop(arg[1], arg[2]))
        => /\ exc = None
           /\ ret = PathToFirstStop(arg[1], arg[2])

\* length of the part of a path that lies before its first node of the
\* membership set
OffStackPrefix(path) ==
    IF \E i \in 1..Len(path) : path[i] \in stack_ids
    THEN (CHOOSE i \in 1..Len(path) :
             /\ path[i] \in stack_ids
             /\ \A j \in 1..(i - 1) : path[j] \notin stack_ids) - 1
    ELSE Len(path)

\* C15 (amended): every node of the returned path that lies before the
\* first node of the membership set and is not the last one has exactly
\* one parent and is followed by it; and for a start node off the stack,
\* when the walk comes to the first node that is end or does not have
\* exactly one parent, and that node is end or is not in the membership
\* set, _node_path returns the path so far, which ends at that node.
C15_WalkFollowsOnlyParents ==
    (op = "node_path" /\ exc = None)
        => /\ \A i \in 1..OffStackPrefix(ret) :
                 i < Len(ret) => /\ Len(parents[ret[i]]) = 1
                                 /\ ret[i + 1] = parent(ret[i])
           /\ (/\ arg[1] \notin stack_ids
               /\ WalkMeetsFirstStop(arg[1], arg[2])
               /\ \/ Last(PathToFirstStop(arg[1], arg[2])) = arg[2]
                  \/ Last(PathToFirstStop(arg[1], arg[2])) \notin stack_ids)
                 => ret = PathToFirstStop(arg[1], arg[2])

\* E is off the stack and so is its parent D, which has two parents
C15_Witness ==
    /\ op = "node_path" /\ arg = <<"E", "canvas_cs">>
    /\ stack # <<>> /\ ret = <<"E", "D">>

\* C16: when node_transform is called twice with the same endpoints and the
\* stacks unchanged in between, and the first call returns, the second
\* call returns an equal result and does not run _node_path.
C16_SecondCallDoesNotWalk ==
    (Len(probe) = 2 /\ probe[1].arg = probe[2].arg /\ probe[1].exc = None)
        => /\ probe[2].exc = None
           /\ probe[2].ret = probe[1].ret
           /\ probe[2].runs = 0

\* C17: the event that copy() returns has the node stack and the viewbox
\* stack of the original, a membership set holding exactly the nodes of its
\* node stack and a document stack holding their documents; pop_node on it
\* succeeds when its path is not empty, and push_node on it raises for a
\* node that is on its path.
C17_CopyIsConsistent ==
    [][op' = "copy"
          => /\ stack' = stack
             /\ viewbox_stack' = viewbox_stack
             /\ stack_ids' = Elems(stack')
             /\ doc_stack' = DeclaredDocuments(stack')
             /\ stack' # <<>> => pop_node(Self').exc = None
             /\ \A node \in Elems(stack') :
                   push_node(Self', node).exc = "RuntimeError"]_vars

\* C18: node_transform and _node_path are pure queries: whether the call
\* returns or raises, the node stack, the membership set, the document
\* stack and the viewbox stack are after it what they were before it.
C18_QueriesLeaveStacks ==
    [][op' \in {"node_transform", "node_path"}
          => UNCHANGED <<stack, stack_ids, doc_stack, viewbox_stack>>]_vars

\* a node_transform call that raised on a path of three nodes
C18_Witness ==
    /\ op = "node_transform" /\ exc = "IndexError"
    /\ Len(stack) = 3 /\ Cardinality(stack_ids) = 3 /\ doc_stack # <<>>

\* the upward walk follows at most one parent link per node of the graph,
\* and the stack copy appends at most one node per entry of the stack
StepsBounded ==
    /\ run.walked <= Cardinality(Nodes) - 1
    /\ run.copied <= Len(stack)

\* the outcome of the call executed step by step is that of node_transform
StepsAgree ==
    IF op = "node_transform" /\ run.pc = "none"
    THEN IF exc = None /\ NodeTransform(Self, arg[1], arg[2]).exc = None
         THEN run.chain = NodeTransform(Self, arg[1], arg[2]).ret
         ELSE exc = NodeTransform(Self, arg[1], arg[2]).exc
    ELSE TRUE

\* C19: node_transform always terminates, by return or by raise, for every
\* pair of endpoints and every node stack (the parent relation being
\* acyclic); the upward walk and the stack copy each take a bounded number
\* of steps.
C19_NodeTransformTerminates ==
    /\ [](StepsBounded /\ StepsAgree)
    /\ (run.pc # "none") ~> (run.pc = "none")

\* after a walk of one step, the copy has appended as many nodes as the
\* stack has
C19_Witness ==
    /\ run.pc = "copy" /\ run.walked = 1
    /\ Len(stack) = 3 /\ Cardinality(stack_ids) = 3 /\ run.copied = Len(stack)
====
